---- MODULE Spec2Model ----
(***************************************************************************)
(* A model of llm_compatibility: the provider registry and client factory  *)
(* (models.py), the agent builder (models.py) and the parallel fan-out     *)
(* runner with its blocking wrapper (utils.py).                            *)
(*                                                                         *)
(* Texts (str values that are built by formatting) are sequences of string *)
(* tokens, so that a prefix such as "Error: " is the head of the sequence  *)
(* and f-string formatting is concatenation.  Python dicts are functions   *)
(* whose domain is the key set.  Python's None is the token None.          *)
(***************************************************************************)
EXTENDS Naturals, Sequences, FiniteSets, TLC

VARIABLES
    args,       \* the caller's seven arguments of the fan-out call
    environ,    \* os.environ: environment key -> value
    entry,      \* which entry point the caller used: "none", "async", "sync"
    pc,         \* the coroutine run_with_multiple_providers: "idle",
                \* "gathering" (awaiting asyncio.gather), "returned", "raised"
    task,       \* task[i]: the run_provider task of providers[i]
    rt,         \* rt[i]: the external runtime's call made by task i
    calls,      \* the log of Runner.run invocations, in dispatch order
    result,     \* how the coroutine completed
    caller,     \* the caller: "idle", "waiting", "done"
    client_call, \* one call of LLMClient.create_client: its arguments and outcome
    json_tools, \* the argument of a tool-factory call
    created,    \* the outcome of the tool-factory call
    invocation  \* the invocation of a created tool that is under way or over

\* The variables of the fan-out call, and those of the single calls of the
\* client factory.
runVars == <<args, entry, pc, task, rt, calls, result, caller>>
toolVars == <<json_tools, created, invocation>>
unitVars == <<client_call, json_tools, created, invocation>>
vars == <<args, environ, entry, pc, task, rt, calls, result, caller, client_call, json_tools, created, invocation>>

----------------------------------------------------------------------------
(* Bounds of the model. *)

MaxProviders == 2
MaxMessages == 3
MaxDefs == 2
MaxTokens == 5
MaxArgs == 2

----------------------------------------------------------------------------
(* Values. *)

None == "<None>"
EmptyDict == [k \in {} |-> None]
NoText == <<>>

\* Python truthiness of an Optional[str]: None and "" are falsy.
Truthy(s) == s # None /\ s # ""

\* dict.get(key): the value, or None when the key is absent.
Get(d, k) == IF k \in DOMAIN d THEN d[k] ELSE None

\* x or default, for an Optional dict or list given as <<>> (None) or <<v>>.
OrElse(opt, default) ==
    IF opt = <<>> THEN default
    ELSE IF opt[1] = EmptyDict THEN default
    ELSE opt[1]

\* A faulty normalisation: the identifier is looked up as it was given.
LowerMissing(s) == s

\* str.lower() on the provider identifiers the model draws from.
Lower(s) ==
    CASE s = "OpenAI" -> "openai"
      [] s = "CLAUDE" -> "claude"
      [] s = "Gemini" -> "gemini"
      [] s = "DeepSeek" -> "deepseek"
      [] OTHER -> s

----------------------------------------------------------------------------
(* models.py: LLMClient.create_client and UniversalAgent.create. *)

\* The providers table of create_client.
Registry ==
    [p \in {"openai", "claude", "gemini", "deepseek"} |->
        CASE p = "openai" ->
               [base_url |-> "https://api.openai.com/v1/",
                env_var |-> "OPENAI_API_KEY"]
          [] p = "claude" ->
               [base_url |-> "https://api.anthropic.com/v1/",
                env_var |-> "ANTHROPIC_API_KEY"]
          [] p = "gemini" ->
               [base_url |-> "https://generativelanguage.googleapis.com/v1beta/openai/",
                env_var |-> "GEMINI_API_KEY"]
          [] p = "deepseek" ->
               [base_url |-> "https://api.deepseek.com/v1/",
                env_var |-> "DEEPSEEK_API_KEY"]]

\* ', '.join(providers.keys()): the keys in the table's insertion order.
SupportedList == <<"openai", ", ", "claude", ", ", "gemini", ", ", "deepseek">>

NoClient == [base_url |-> None, api_key |-> None]

\* A construction call's outcome is [ok, value, error]: the value it returns
\* or the message of the ValueError it raises.

\* A faulty resolution: the environment value wins over the explicit key.
ResolveKeyEnvFirst(api_key, env_var, env) ==
    IF Truthy(Get(env, env_var)) THEN Get(env, env_var) ELSE api_key

\* api_key or os.environ.get(env_var)
ResolveKey(api_key, env_var, env) ==
    IF Truthy(api_key) THEN api_key ELSE Get(env, env_var)

\* A faulty factory: the credential check of lines 45-46 is missing, so a
\* client is made whatever the resolved key is.
CreateClientUnchecked(provider, api_key, env) ==
    IF Lower(provider) \notin DOMAIN Registry
    THEN [ok |-> FALSE, value |-> NoClient,
          error |-> <<"Unsupported provider: ", provider,
                      ". Supported providers are: ">> \o SupportedList]
    ELSE [ok |-> TRUE,
          value |-> [base_url |-> Registry[Lower(provider)].base_url,
                     api_key |-> ResolveKey(api_key, Registry[Lower(provider)].env_var, env)],
          error |-> NoText]

\* LLMClient.create_client(provider, api_key) under the environment env.
CreateClient(provider, api_key, env) ==
    IF Lower(provider) \notin DOMAIN Registry
    THEN [ok |-> FALSE, value |-> NoClient,
          error |-> <<"Unsupported provider: ", provider,
                      ". Supported providers are: ">> \o SupportedList]
    ELSE LET provider_config == Registry[Lower(provider)]
             provider_api_key ==
                 ResolveKey(api_key, provider_config.env_var, env)
         IN  IF ~Truthy(provider_api_key)
             THEN [ok |-> FALSE, value |-> NoClient,
                   error |-> <<"API key not provided and ",
                               provider_config.env_var,
                               " environment variable not set">>]
             ELSE [ok |-> TRUE,
                   value |-> [base_url |-> provider_config.base_url,
                              api_key |-> provider_api_key],
                   error |-> NoText]

NoAgent ==
    [name |-> None, instructions |-> None, model_class |-> None,
     model |-> None, client |-> NoClient, temperature |-> None,
     tools |-> <<>>, handoffs |-> <<>>]

\* UniversalAgent.create with the defaults the runner leaves alone
\* (handoffs=None, name="Assistant", use_responses_api=False).
UniversalAgentCreate(provider, model_name, instructions, api_key, tools, temperature, env) ==
    LET client == CreateClient(provider, api_key, env)
    IN  IF ~client.ok
        THEN [ok |-> FALSE, value |-> NoAgent, error |-> client.error]
        ELSE [ok |-> TRUE,
              value |-> [name |-> "Assistant",
                         instructions |-> instructions,
                         model_class |-> "OpenAIChatCompletionsModel",
                         model |-> model_name,
                         client |-> client.value,
                         temperature |-> temperature,
                         tools |-> tools,
                         handoffs |-> <<>>],
              error |-> NoText]

----------------------------------------------------------------------------
(* utils.py: run_provider's straight-line parts. *)

\* A faulty extraction: the content of the first message, whatever its role.
FirstMessageContent(messages) ==
    IF messages = <<>> THEN "" ELSE Head(messages).content

\* next((msg["content"] for msg in messages if msg["role"] == "user"), "")
RECURSIVE FirstUserContent(_)
FirstUserContent(messages) ==
    IF messages = <<>> THEN ""
    ELSE IF Head(messages).role = "user" THEN Head(messages).content
    ELSE FirstUserContent(Tail(messages))

\* Line 36-37: the model-name check.
HasModelName(provider, model_names) == provider \in DOMAIN model_names

MissingModelError(provider) ==
    <<"No model name specified for provider: ", provider>>

\* Lines 39-46: the agent run_provider builds for one provider.
BuildAgent(provider, b, env) ==
    UniversalAgentCreate(provider, b.model_names[provider], b.system_prompt,
                         Get(b.api_keys, provider), b.tools, b.temperature, env)

\* Line 52: return provider, result.final_output
OnRuntimeReturn(provider, final_output) ==
    [provider |-> provider, text |-> final_output]

\* A faulty handler: the message is recorded without the "Error: " prefix.
OnRuntimeExceptionNoPrefix(provider, message) ==
    [provider |-> provider, text |-> message]

\* Line 54: return provider, f"Error: {str(e)}"
OnRuntimeException(provider, message) ==
    [provider |-> provider, text |-> <<"Error: ">> \o message]

\* Line 51: the invocation Runner.run(agent, input=input_message).
RunnerRunCall(i, agent, messages) ==
    [task |-> i, agent |-> agent, input |-> FirstUserContent(messages)]

\* A faulty dispatch: the invocation is issued a second time.
InvokeWithRetry(log, call) == Append(Append(log, call), call)

\* The log of runtime invocations after one more invocation.
Invoke(log, call) == Append(log, call)

----------------------------------------------------------------------------
(* utils.py: run_with_multiple_providers and its blocking wrapper. *)

\* Lines 31-32: api_keys = api_keys or {}; tools = tools or [].
BindArgs(a) ==
    [system_prompt |-> a.system_prompt,
     messages |-> a.messages,
     providers |-> a.providers,
     model_names |-> a.model_names,
     api_keys |-> OrElse(a.api_keys, EmptyDict),
     tools |-> OrElse(a.tools, <<>>),
     temperature |-> a.temperature]

\* A faulty wrapper: api_keys is not handed on.
SyncForwardNoKeys(a) == [a EXCEPT !.api_keys = <<>>]

\* Lines 73-83: the keyword arguments the wrapper hands to the async form.
SyncForward(a) ==
    [system_prompt |-> a.system_prompt,
     messages |-> a.messages,
     providers |-> a.providers,
     model_names |-> a.model_names,
     api_keys |-> a.api_keys,
     tools |-> a.tools,
     temperature |-> a.temperature]

\* The arguments bound inside the running coroutine.
Bound == BindArgs(IF entry = "sync" THEN SyncForward(args) ELSE args)

\* Line 56: one run_provider coroutine per entry of providers, in list order.
Tasks(b) ==
    [i \in 1..Len(b.providers) |->
        [st |-> "created",
         val |-> [provider |-> b.providers[i], text |-> NoText]]]

NoCall == [st |-> "none", out |-> NoText]

N == Len(task)
Stepped(i) == task[i].st # "created"
AllStepped == \A i \in 1..N : Stepped(i)

\* A task whose run_provider raised: the exception left the coroutine.
RaisedSet == {i \in 1..N : task[i].st = "raised"}
Min(S) == CHOOSE x \in S : \A y \in S : x <= y
Max(S) == CHOOSE x \in S : \A y \in S : x >= y

\* Line 59: {provider: result for provider, result in results_list}; a later
\* pair with the same provider replaces an earlier one.
ResultsDict(results_list) ==
    [p \in {results_list[i].provider : i \in 1..Len(results_list)} |->
        results_list[Max({i \in 1..Len(results_list) :
                             results_list[i].provider = p})].text]

EmptyResults == [p \in {} |-> NoText]
NoResult == [kind |-> "none", value |-> EmptyResults, error |-> NoText]
Returned(mapping) == [kind |-> "return", value |-> mapping, error |-> NoText]
Raised(message) == [kind |-> "raise", value |-> EmptyResults, error |-> message]

----------------------------------------------------------------------------
(* The inputs the model draws from. *)

RECURSIVE SeqsUpTo(_, _)
SeqsUpTo(S, n) ==
    IF n = 0 THEN {<<>>}
    ELSE LET shorter == SeqsUpTo(S, n - 1)
         IN  shorter \cup {Append(q, x) : q \in shorter, x \in S}

\* Provider identifiers a caller may pass: two supported ones and one the
\* registry does not know.
ProviderPool == {"openai", "claude", "invalid-provider"}
KeyedProviders == {"openai", "claude"}
EnvKeys == {"OPENAI_API_KEY", "ANTHROPIC_API_KEY"}

ModelNameOf(p) ==
    CASE p = "openai" -> "gpt-4o"
      [] p = "claude" -> "claude-3-opus"
      [] OTHER -> "some-model"

ModelNameDicts == {[p \in S |-> ModelNameOf(p)] : S \in SUBSET ProviderPool}
ApiKeyDicts == {[p \in S |-> "sk-explicit"] : S \in SUBSET KeyedProviders}
Environments == {[k \in S |-> "sk-env"] : S \in SUBSET EnvKeys}

Message(role, content) == [role |-> role, content |-> content]
MessagePool ==
    {Message(r, c) : r \in {"user", "system", "assistant"}, c \in {"Hello", "Bye"}}
DefaultMessages == <<Message("user", "Hello")>>

\* Calls that vary the providers, the model names and the credentials.
FanOutInputs ==
    [system_prompt : {"You are a helpful assistant."},
     messages : {DefaultMessages},
     providers : SeqsUpTo(ProviderPool, MaxProviders),
     model_names : ModelNameDicts,
     api_keys : {<<>>} \cup {<<d>> : d \in ApiKeyDicts},
     tools : {<<>>},
     temperature : {"0.7"}]

\* Calls that vary the messages, for a buildable and an unbuildable list.
PromptInputs ==
    [system_prompt : {"You are a helpful assistant."},
     messages : SeqsUpTo(MessagePool, MaxMessages),
     providers : {<<"openai", "claude">>, <<"claude", "invalid-provider">>},
     model_names : {[p \in ProviderPool |-> ModelNameOf(p)]},
     api_keys : {<<[p \in KeyedProviders |-> "sk-explicit"]>>},
     tools : {<< <<"get_weather">> >>},
     temperature : {"0.7"}]

\* What the external runtime may answer, and how it may fail.
RuntimeTexts == {<<"Success">>, <<"Hello from the LLM!">>}
RuntimeErrors == {<<"Test error">>}

----------------------------------------------------------------------------
(* tools.py: JsonTool.from_json and create_tools_from_json. *)

\* dict.get(key, default)
GetOr(d, k, default) == IF k \in DOMAIN d THEN d[k] ELSE default

\* The callable from_json returns: its __name__, its __doc__, its attached
\* tool_schema, and the name and callback_url its closure holds.
NoTool ==
    [name |-> None, doc |-> None,
     tool_schema |-> [type |-> None,
                      function |-> [name |-> None, description |-> None,
                                    parameters |-> None]],
     closure |-> [name |-> None, callback_url |-> None]]

\* A faulty factory: a definition without a name is given the name "".
FromJsonUnchecked(json_def) ==
    LET name == GetOr(json_def, "name", "")
        description == GetOr(json_def, "description", "")
        parameters == GetOr(json_def, "parameters", "{}")
    IN  [ok |-> TRUE, exc |-> None, error |-> NoText,
         value |-> [name |-> name, doc |-> description,
                    tool_schema |-> [type |-> "function",
                                     function |-> [name |-> name,
                                                   description |-> description,
                                                   parameters |-> parameters]],
                    closure |-> [name |-> name,
                                 callback_url |-> Get(json_def, "callback_url")]]]

\* JsonTool.from_json(json_def) for a dict json_def, lines 41-79.
FromJson(json_def) ==
    LET name == Get(json_def, "name")
        description == GetOr(json_def, "description", "")
        parameters == GetOr(json_def, "parameters", "{}")
        callback_url == Get(json_def, "callback_url")
    IN  IF ~Truthy(name)
        THEN [ok |-> FALSE, exc |-> "ValueError", value |-> NoTool,
              error |-> <<"Tool definition must include a 'name' field">>]
        ELSE [ok |-> TRUE, exc |-> None, error |-> NoText,
              value |-> [name |-> name, doc |-> description,
                         tool_schema |-> [type |-> "function",
                                          function |-> [name |-> name,
                                                        description |-> description,
                                                        parameters |-> parameters]],
                         closure |-> [name |-> name,
                                      callback_url |-> callback_url]]]

\* A JSON value as the factory sees it: an object (a dict) or a list.  Of a
\* list inside a list only its being a list matters.
JObject(d) == [kind |-> "object", d |-> d, items |-> <<>>]
JList(items) == [kind |-> "list", d |-> EmptyDict, items |-> items]

\* from_json applied to one element: json_def.get of line 41 raises
\* AttributeError on an element that is a list.
FromJsonElement(el) ==
    IF el.kind = "object" THEN FromJson(el.d)
    ELSE [ok |-> FALSE, exc |-> "AttributeError", value |-> NoTool,
          error |-> <<"'list' object has no attribute 'get'">>]

\* The outcome of a factory call: the list of tools it returns, or the
\* exception it raises.
NoTools == [st |-> "none", exc |-> None, error |-> NoText, list |-> <<>>]
ToolsReturned(list) == [st |-> "ok", exc |-> None, error |-> NoText, list |-> list]
ToolsRaised(exc, error) == [st |-> "raised", exc |-> exc, error |-> error, list |-> <<>>]

\* A faulty comprehension: elements the factory rejects are left out.
RECURSIVE BuildToolsSkipping(_)
BuildToolsSkipping(tools_list) ==
    IF tools_list = <<>> THEN ToolsReturned(<<>>)
    ELSE LET first == FromJsonElement(Head(tools_list))
             rest == BuildToolsSkipping(Tail(tools_list))
         IN  IF first.ok THEN ToolsReturned(<<first.value>> \o rest.list)
             ELSE rest

\* Line 102: [JsonTool.from_json(tool_def) for tool_def in tools_list]; the
\* first element that fails ends the comprehension with its exception.
RECURSIVE BuildTools(_)
BuildTools(tools_list) ==
    IF tools_list = <<>> THEN ToolsReturned(<<>>)
    ELSE LET first == FromJsonElement(Head(tools_list))
         IN  IF ~first.ok THEN ToolsRaised(first.exc, first.error)
             ELSE LET rest == BuildTools(Tail(tools_list))
                  IN  IF rest.st = "raised" THEN rest
                      ELSE ToolsReturned(<<first.value>> \o rest.list)

\* Lines 99-100: a value that is not a list becomes a one-element list.
AsList(value) == IF value.kind = "list" THEN value.items ELSE <<value>>

\* JSON text is a sequence of tokens: "[", "]", ",", a complete object
\* ("obj", with the dict it denotes) or an object cut short ("{").
Tok(t) == [t |-> t, d |-> EmptyDict]
ObjTok(d) == [t |-> "obj", d |-> d]
ParseFailed == [ok |-> FALSE, next |-> 0, value |-> JList(<<>>)]

\* json.loads by recursive descent: a value is an object or a bracketed,
\* comma-separated list of values; ParseValue reads one value at position i,
\* ParseElements the elements and the closing bracket of a list.
RECURSIVE ParseValue(_, _), ParseElements(_, _)
ParseValue(toks, i) ==
    IF i > Len(toks) THEN ParseFailed
    ELSE IF toks[i].t = "obj"
    THEN [ok |-> TRUE, next |-> i + 1, value |-> JObject(toks[i].d)]
    ELSE IF toks[i].t = "["
    THEN IF i + 1 <= Len(toks) /\ toks[i + 1].t = "]"
         THEN [ok |-> TRUE, next |-> i + 2, value |-> JList(<<>>)]
         ELSE ParseElements(toks, i + 1)
    ELSE ParseFailed
ParseElements(toks, i) ==
    LET v == ParseValue(toks, i)
        \* an element that is itself a list is kept as an empty list
        el == IF v.value.kind = "list" THEN JList(<<>>) ELSE v.value
    IN  IF ~v.ok \/ v.next > Len(toks) THEN ParseFailed
        ELSE IF toks[v.next].t = "]"
        THEN [ok |-> TRUE, next |-> v.next + 1, value |-> JList(<<el>>)]
        ELSE IF toks[v.next].t = ","
        THEN LET more == ParseElements(toks, v.next + 1)
             IN  IF ~more.ok THEN ParseFailed
                 ELSE [ok |-> TRUE, next |-> more.next,
                       value |-> JList(<<el>> \o more.value.items)]
        ELSE ParseFailed

\* A faulty parser: text that ends early is read as the value read so far.
JsonLoadsPrefix(toks) ==
    LET v == ParseValue(toks, 1)
    IN  IF v.ok THEN v ELSE ParseFailed

\* json.loads(text): the whole text must be one value.
JsonLoads(toks) ==
    LET v == ParseValue(toks, 1)
    IN  IF v.ok /\ v.next = Len(toks) + 1 THEN v ELSE ParseFailed

\* The argument of create_tools_from_json: a str (text) or a structure.
TextInput(toks) == [how |-> "text", toks |-> toks, value |-> JList(<<>>)]
ValueInput(value) == [how |-> "value", toks |-> <<>>, value |-> value]
DefInput(d) == [how |-> "def", toks |-> <<>>, value |-> JObject(d)]

\* create_tools_from_json(json_tools), lines 91-102.
CreateToolsFromJson(input) ==
    IF input.how = "text"
    THEN LET parsed == JsonLoads(input.toks)
         IN  IF ~parsed.ok THEN ToolsRaised("ValueError", <<"Invalid JSON string">>)
             ELSE BuildTools(AsList(parsed.value))
    ELSE BuildTools(AsList(input.value))

\* Line 53: if callback_url
UsesCallback(tool) == Truthy(tool.closure.callback_url)

\* Lines 55-58: requests.post(callback_url, json={"name": name, "parameters": kwargs})
PostRequest(tool, kwargs) ==
    [url |-> tool.closure.callback_url,
     json |-> [name |-> tool.closure.name, parameters |-> kwargs]]

\* What requests.post may do: return a response whose status is no error,
\* return one whose status is an error (raise_for_status then raises an
\* HTTPError with a message), or raise itself.
PostOk(text) == [kind |-> "ok", text |-> text, message |-> NoText]
PostHttpError(text, message) == [kind |-> "http_error", text |-> text, message |-> message]
PostRaises(message) == [kind |-> "raise", text |-> NoText, message |-> message]

\* What an invocation hands to its caller: a returned text, or an exception.
ToolReturns(text) == [out |-> text, raised |-> FALSE]

\* A faulty callback branch: raise_for_status is not called, so the body of
\* an error response is returned as the result.
CallbackResultUnchecked(tool, response) ==
    IF response.kind = "raise"
    THEN ToolReturns(<<"Error calling ", tool.closure.name, ": ">> \o response.message)
    ELSE ToolReturns(response.text)

\* Lines 59-62: raise_for_status, return response.text; any Exception
\* becomes f"Error calling {name}: {str(e)}".
CallbackResult(tool, response) ==
    IF response.kind = "ok"
    THEN ToolReturns(response.text)
    ELSE ToolReturns(<<"Error calling ", tool.closure.name, ": ">> \o response.message)

\* ", ".join(f"{k}={v}" for k, v in pairs)
RECURSIVE JoinPairs(_)
JoinPairs(pairs) ==
    IF pairs = <<>> THEN <<>>
    ELSE <<Head(pairs).k, "=", Head(pairs).v>>
         \o (IF Tail(pairs) = <<>> THEN <<>> ELSE <<", ">> \o JoinPairs(Tail(pairs)))

\* The pairs of kwargs in the alphabetical order of their keys.
SortedPairs(kwargs) ==
    LET at(key) == {i \in 1..Len(kwargs) : kwargs[i].k = key}
        pick(key) == IF at(key) = {} THEN <<>> ELSE <<kwargs[CHOOSE i \in at(key) : TRUE]>>
    IN  pick("city") \o pick("country")

\* A faulty echo: the arguments are listed in the order of their names.
EchoResultSorted(tool, kwargs) ==
    ToolReturns(<<"Tool ", tool.closure.name, " called with parameters: ">>
                \o JoinPairs(SortedPairs(kwargs)))

\* Lines 64-65: the echo of the arguments, in kwargs' insertion order.
EchoResult(tool, kwargs) ==
    ToolReturns(<<"Tool ", tool.closure.name, " called with parameters: ">>
                \o JoinPairs(kwargs))

\* No invocation of a tool is under way.
NoResponse == [kind |-> "none", text |-> NoText, message |-> NoText]
NoInvocation ==
    [st |-> "none", tool |-> 0, kwargs |-> <<>>, posts |-> <<>>,
     response |-> NoResponse, out |-> NoText, raised |-> FALSE]

\* No call of the tool factory is being looked at.
ToolsIdle ==
    /\ json_tools = ValueInput(JList(<<>>))
    /\ created = NoTools
    /\ invocation = NoInvocation

\* No call of the client factory is being looked at.
NoClientCall ==
    [provider |-> None, api_key |-> None, st |-> "none",
     out |-> [ok |-> FALSE, value |-> NoClient, error |-> NoText]]
UnitIdle == client_call = NoClientCall /\ ToolsIdle

----------------------------------------------------------------------------
(* The state machine. *)

Init ==
    /\ args \in FanOutInputs \cup PromptInputs
    /\ environ \in Environments
    /\ entry = "none"
    /\ pc = "idle"
    /\ task = <<>>
    /\ rt = <<>>
    /\ calls = <<>>
    /\ result = NoResult
    /\ caller = "idle"
    /\ UnitIdle

\* The caller awaits run_with_multiple_providers(...): lines 29-57 up to the
\* await of asyncio.gather, which has wrapped every coroutine in a task.
CallAsync ==
    /\ caller = "idle"
    /\ entry' = "async"
    /\ caller' = "waiting"
    /\ pc' = "gathering"
    /\ task' = Tasks(BindArgs(args))
    /\ rt' = [i \in 1..Len(args.providers) |-> NoCall]
    /\ UNCHANGED unitVars
    /\ UNCHANGED <<args, environ, calls, result>>

\* The caller calls run_with_multiple_providers_sync(...): asyncio.run starts
\* a loop and runs the async form in it with the forwarded arguments.
CallSync ==
    /\ caller = "idle"
    /\ entry' = "sync"
    /\ caller' = "waiting"
    /\ pc' = "gathering"
    /\ task' = Tasks(BindArgs(SyncForward(args)))
    /\ rt' = [i \in 1..Len(SyncForward(args).providers) |-> NoCall]
    /\ UNCHANGED unitVars
    /\ UNCHANGED <<args, environ, calls, result>>

\* A faulty runner that awaits the providers one after the other: task i
\* starts only when every earlier task is over.
CanStartSequential(i) ==
    /\ task[i].st = "created"
    /\ \A j \in 1..(i - 1) : task[j].st \in {"ok", "caught", "raised"}

\* The event loop runs the tasks' first steps in the order gather created
\* them: task i may take its first step once every earlier task has.
CanStart(i) ==
    /\ task[i].st = "created"
    /\ \A j \in 1..(i - 1) : Stepped(j)

\* First step of run_provider(providers[i]), lines 36-51, up to the await of
\* Runner.run.  A missing model name or a failed agent build raises out of
\* the coroutine (both are outside the try of line 50).
RunProvider(i) ==
    /\ CanStart(i)
    /\ LET p == task[i].val.provider
           b == Bound
       IN  IF ~HasModelName(p, b.model_names)
           THEN /\ task' = [task EXCEPT ![i].st = "raised",
                                        ![i].val.text = MissingModelError(p)]
                /\ UNCHANGED <<rt, calls>>
           ELSE LET built == BuildAgent(p, b, environ)
                IN  IF ~built.ok
                    THEN /\ task' = [task EXCEPT ![i].st = "raised",
                                                 ![i].val.text = built.error]
                         /\ UNCHANGED <<rt, calls>>
                    ELSE /\ calls' = Invoke(calls, RunnerRunCall(i, built.value, b.messages))
                         /\ rt' = [rt EXCEPT ![i].st = "pending"]
                         /\ task' = [task EXCEPT ![i].st = "inflight"]
    /\ UNCHANGED unitVars
    /\ UNCHANGED <<args, environ, entry, pc, result, caller>>

\* The loop resumes a task when its awaited runtime call is over.  A call
\* that completes without suspending ends inside its task's first step,
\* before any later task starts; any other completion is delivered by the
\* loop after the whole wave of first steps.
CanResume(i) ==
    /\ task[i].st = "inflight"
    /\ rt[i].st = "pending"
    /\ \/ AllStepped
       \/ \A j \in (i + 1)..N : ~Stepped(j)

\* Runner.run returns: line 52.
RuntimeReturns(i) ==
    /\ CanResume(i)
    /\ \E text \in RuntimeTexts :
          /\ rt' = [rt EXCEPT ![i] = [st |-> "returned", out |-> text]]
          /\ task' = [task EXCEPT ![i].st = "ok",
                                  ![i].val = OnRuntimeReturn(task[i].val.provider, text)]
    /\ UNCHANGED unitVars
    /\ UNCHANGED <<args, environ, entry, pc, calls, result, caller>>

\* Runner.run raises an Exception: lines 53-54.
RuntimeRaises(i) ==
    /\ CanResume(i)
    /\ \E message \in RuntimeErrors :
          /\ rt' = [rt EXCEPT ![i] = [st |-> "raised", out |-> message]]
          /\ task' = [task EXCEPT ![i].st = "caught",
                                  ![i].val = OnRuntimeException(task[i].val.provider, message)]
    /\ UNCHANGED unitVars
    /\ UNCHANGED <<args, environ, entry, pc, calls, result, caller>>

\* asyncio.gather without return_exceptions: the first exception of a child
\* is raised into the awaiting coroutine as soon as the loop has run the
\* wave of first steps; the other children are left running.
GatherCanRaise == pc = "gathering" /\ AllStepped /\ RaisedSet # {}

\* Every child returned: gather delivers the list of (provider, text) pairs.
GatherCanReturn ==
    pc = "gathering" /\ \A i \in 1..N : task[i].st \in {"ok", "caught"}

\* Line 57 raises: the coroutine ends with the child's exception.  Awaited
\* directly, the caller sees it at once.
GatherRaises ==
    /\ GatherCanRaise
    /\ pc' = "raised"
    /\ result' = Raised(task[Min(RaisedSet)].val.text)
    /\ caller' = IF entry = "async" THEN "done" ELSE caller
    /\ UNCHANGED unitVars
    /\ UNCHANGED <<args, environ, entry, task, rt, calls>>

\* Lines 57-59: gather returns and the coroutine returns the dict.
GatherReturns ==
    /\ GatherCanReturn
    /\ pc' = "returned"
    /\ result' = Returned(ResultsDict([i \in 1..N |-> task[i].val]))
    /\ caller' = IF entry = "async" THEN "done" ELSE caller
    /\ UNCHANGED unitVars
    /\ UNCHANGED <<args, environ, entry, task, rt, calls>>

\* asyncio.run's teardown cancels every task still pending in its loop; the
\* CancelledError is no Exception, so line 53 does not catch it.
CancelPending(t) ==
    [i \in 1..Len(t) |->
        IF t[i].st = "inflight" THEN [t[i] EXCEPT !.st = "cancelled"] ELSE t[i]]

\* Lines 73-83: asyncio.run ends once the coroutine has: it tears its loop
\* down and hands the coroutine's return value or exception to the caller.
AsyncioRunExit ==
    /\ entry = "sync"
    /\ caller = "waiting"
    /\ pc \in {"returned", "raised"}
    /\ task' = CancelPending(task)
    /\ rt' = [i \in 1..N |->
                IF task[i].st = "inflight"
                THEN [rt[i] EXCEPT !.st = "cancelled"] ELSE rt[i]]
    /\ caller' = "done"
    /\ UNCHANGED unitVars
    /\ UNCHANGED <<args, environ, entry, pc, calls, result>>

Next ==
    \/ CallAsync
    \/ CallSync
    \/ \E i \in 1..N : RunProvider(i)
    \/ \E i \in 1..N : RuntimeReturns(i)
    \/ \E i \in 1..N : RuntimeRaises(i)
    \/ GatherRaises
    \/ GatherReturns
    \/ AsyncioRunExit

Spec == Init /\ [][Next]_vars

----------------------------------------------------------------------------
(* Vocabulary of the properties. *)

Providers == args.providers
ProviderSet == {Providers[i] : i \in 1..Len(Providers)}
Called == entry # "none"
Done == caller = "done"

\* Provider p of the call has a model name, a known identifier and a
\* resolvable credential, judged on the caller's own arguments.
Supported(p) == Lower(p) \in DOMAIN Registry
WithModelName(p) == p \in DOMAIN args.model_names
ExplicitKey(p) ==
    IF args.api_keys = <<>> THEN None ELSE Get(args.api_keys[1], p)
WithCredential(p) ==
    /\ Supported(p)
    /\ \/ Truthy(ExplicitKey(p))
       \/ Truthy(Get(environ, Registry[Lower(p)].env_var))
Buildable(p) == WithModelName(p) /\ WithCredential(p)
AllBuildable == \A p \in ProviderSet : Buildable(p)

\* The text a provider's slot must hold for what the runtime did.
SlotFor(call) ==
    IF call.st = "returned" THEN call.out ELSE <<"Error: ">> \o call.out
IsErrorText(text) == Len(text) >= 1 /\ Head(text) = "Error: "

\* The last task of a provider: the one whose pair the dict keeps.
LastTaskOf(p) == Max({i \in 1..Len(Providers) : Providers[i] = p})

----------------------------------------------------------------------------
(* C1-C6: the result mapping and the containment of failures. *)

\* C1: every completed call returns a mapping whose key set is exactly the
\* set of provider ids of the providers list, whatever the inputs and the
\* runtime's outcomes.
C1_OneOutcomePerProvider ==
    Done => /\ result.kind = "return"
            /\ DOMAIN result.value = ProviderSet

\* C2: when every provider's agent is built, the call returns normally and
\* each provider's slot is fixed by that provider's own runtime outcome: the
\* runtime's final output, or "Error: " followed by the failure message.
C2_SlotFollowsOwnRuntimeOutcome ==
    (Called /\ AllBuildable) =>
        /\ \A i \in 1..N :
              /\ task[i].st # "raised"
              /\ rt[i].st \in {"returned", "raised"} =>
                    /\ task[i].val.provider = Providers[i]
                    /\ task[i].val.text = SlotFor(rt[i])
        /\ Done =>
              /\ result.kind = "return"
              /\ DOMAIN result.value = ProviderSet
              /\ \A p \in ProviderSet :
                    result.value[p] = SlotFor(rt[LastTaskOf(p)])

C2_Witness ==
    /\ Done
    /\ AllBuildable
    /\ \E i, j \in 1..N :
          /\ Providers[i] # Providers[j]
          /\ rt[i].st = "raised"
          /\ rt[j].st = "returned"
          /\ IsErrorText(result.value[Providers[i]])
          /\ result.value[Providers[j]] = rt[j].out

\* C3: a provider without a model name yields a failure text under its own
\* key, and the call still returns the mapping.
C3_MissingModelNameIsSlotFailure ==
    (Done /\ \E p \in ProviderSet : ~WithModelName(p)) =>
        /\ result.kind = "return"
        /\ \A p \in ProviderSet :
              /\ p \in DOMAIN result.value
              /\ ~WithModelName(p) => IsErrorText(result.value[p])

\* C4: a provider whose agent build fails for want of a credential yields an
\* "Error: " text in its slot, and nothing is raised to the caller.
C4_MissingCredentialIsSlotFailure ==
    (/\ Done
     /\ \A p \in ProviderSet : WithModelName(p) /\ Supported(p)
     /\ \E p \in ProviderSet : ~WithCredential(p)) =>
        /\ result.kind = "return"
        /\ \A p \in ProviderSet :
              /\ p \in DOMAIN result.value
              /\ ~WithCredential(p) => IsErrorText(result.value[p])

\* C5: the call's outcome is observable only when no provider task is still
\* in flight.
C5_JoinBarrier ==
    Done => \A i \in 1..N : task[i].st \notin {"created", "inflight"}

\* C6: no provider task is ever cancelled, under either entry point.
C6_NoSiblingCancelled ==
    \A i \in 1..N : task[i].st # "cancelled" /\ rt[i].st # "cancelled"

----------------------------------------------------------------------------
(* C7-C10: concurrency, dispatch, prompt extraction, the blocking wrapper. *)

\* C7: the provider tasks run concurrently.  The next task in list order
\* can be dispatched whatever the earlier tasks' runtime calls are doing, and
\* once the wave is dispatched every call still in flight can be the next to
\* complete, so the calls may end in any order.
C7_DispatchWaitsForNoSibling ==
    Called =>
        \A i \in 1..N :
            /\ (/\ task[i].st = "created"
                /\ \A j \in 1..(i - 1) : task[j].st # "created")
                  => ENABLED RunProvider(i)
            /\ (/\ task[i].st = "inflight"
                /\ \A j \in 1..N : task[j].st # "created")
                  => ENABLED RuntimeReturns(i) /\ ENABLED RuntimeRaises(i)

C7_Witness ==
    /\ N >= 2
    /\ \A i \in 1..N : task[i].st = "inflight" /\ rt[i].st = "pending"

\* The number of runtime invocations made for task i.
CallCount(i) == Cardinality({k \in 1..Len(calls) : calls[k].task = i})

\* C8: with every provider buildable the runtime is invoked at most once per
\* entry of the providers list, exactly once per entry from the moment the
\* wave is dispatched, and never again after a failure; every invocation
\* carries the same prompt.
C8_OneInvocationPerProvider ==
    (Called /\ AllBuildable) =>
        /\ \A i \in 1..N :
              CallCount(i) = IF task[i].st = "created" THEN 0 ELSE 1
        /\ Len(calls) <= N
        /\ Done => Len(calls) = Len(Providers)
        /\ \A k, l \in 1..Len(calls) : calls[k].input = calls[l].input

C8_Witness ==
    /\ Done
    /\ AllBuildable
    /\ Len(Providers) >= 2
    /\ Len(calls) = Len(Providers)
    /\ \E i \in 1..N : rt[i].st = "raised"

\* The positions of the messages whose role is "user".
UserPositions(messages) ==
    {k \in 1..Len(messages) : messages[k].role = "user"}

\* C9: every forwarded prompt is the content of the first message whose role
\* is "user", and the empty string when there is none; a call without a user
\* message fails no task.
C9_PromptIsFirstUserMessage ==
    LET users == UserPositions(args.messages)
    IN  /\ \A k \in 1..Len(calls) :
              calls[k].input =
                  IF users = {} THEN "" ELSE args.messages[Min(users)].content
        /\ (Called /\ AllBuildable /\ users = {}) =>
              \A i \in 1..N : task[i].st # "raised"

C9_Witness ==
    /\ Len(args.messages) = 3
    /\ args.messages[1].role # "user"
    /\ args.messages[2].role = "user"
    /\ args.messages[3].role = "user"
    /\ args.messages[3].content # args.messages[2].content
    /\ Len(calls) >= 1
    /\ calls[1].input = args.messages[2].content

\* Run to completion on arguments a under environment env, with the runtime
\* answering as in r, the async form ends like this: it raises the error of
\* the first provider in list order that lacks a model name or cannot be
\* built, and otherwise returns one slot per provider.
FailedBuilds(b, env) ==
    {i \in 1..Len(b.providers) :
        \/ ~HasModelName(b.providers[i], b.model_names)
        \/ ~BuildAgent(b.providers[i], b, env).ok}
BuildError(b, env, i) ==
    IF ~HasModelName(b.providers[i], b.model_names)
    THEN MissingModelError(b.providers[i])
    ELSE BuildAgent(b.providers[i], b, env).error
AsyncResult(a, env, r) ==
    LET b == BindArgs(a)
        failed == FailedBuilds(b, env)
    IN  IF failed # {}
        THEN Raised(BuildError(b, env, Min(failed)))
        ELSE Returned([p \in {b.providers[i] : i \in 1..Len(b.providers)} |->
                 SlotFor(r[Max({i \in 1..Len(b.providers) : b.providers[i] = p})])])

\* The runtime invocations the async form makes on a under env, in order.
RECURSIVE AsyncCalls(_, _, _)
AsyncCalls(b, env, n) ==
    IF n = 0 THEN <<>>
    ELSE IF n \in FailedBuilds(b, env) THEN AsyncCalls(b, env, n - 1)
    ELSE Append(AsyncCalls(b, env, n - 1),
                [task |-> n,
                 agent |-> BuildAgent(b.providers[n], b, env).value,
                 input |-> FirstUserContent(b.messages)])

\* C10: the blocking wrapper ends as the async form does on the caller's
\* seven arguments: the same mapping when it returns, the same error when it
\* raises, after the same runtime invocations.
C10_SyncEqualsAsync ==
    Done =>
        /\ result = AsyncResult(args, environ, rt)
        /\ calls = AsyncCalls(BindArgs(args), environ, Len(args.providers))

C10_Witness ==
    /\ Done
    /\ entry = "sync"
    /\ result.kind = "return"
    /\ \E p \in ProviderSet :
          /\ Truthy(ExplicitKey(p))
          /\ ~Truthy(Get(environ, Registry[Lower(p)].env_var))
          /\ ~IsErrorText(result.value[p])

----------------------------------------------------------------------------
(* C11, C19: termination and the order of validation and dispatch. *)

\* The scheduling the event loop and the claim's hypothesis give: the loop
\* runs every ready step, and every dispatched runtime call ends.
Fairness ==
    /\ \A i \in 1..MaxProviders :
          WF_vars(i \in 1..N /\ RunProvider(i))
    /\ \A i \in 1..MaxProviders :
          WF_vars(i \in 1..N /\ (RuntimeReturns(i) \/ RuntimeRaises(i)))
    /\ WF_vars(GatherRaises)
    /\ WF_vars(GatherReturns)
    /\ WF_vars(AsyncioRunExit)

LiveSpec == Spec /\ Fairness

\* First half of C11: when every dispatched runtime call eventually returns
\* or raises, a call that was made eventually completes.
EventuallyCompletes == Called ~> Done

\* C11: the call does not complete while a runtime call has not terminated:
\* no step makes the outcome observable from a state in which some
\* provider's runtime call is still pending.
C11_PendingCallBlocksCompletion ==
    [][(\E i \in 1..N : rt[i].st = "pending") => caller' # "done"]_vars

\* C19: the runtime is invoked for a provider only once its model name was
\* found and its client and agent were built: every invocation, and every
\* runtime call in any state, belongs to a provider with a model name, a
\* supported identifier and a resolvable credential, and carries the agent
\* built for it.
C19_DispatchOnlyAfterBuild ==
    /\ \A k \in 1..Len(calls) :
          LET p == Providers[calls[k].task]
          IN  /\ WithModelName(p)
              /\ Supported(p)
              /\ WithCredential(p)
              /\ calls[k].agent.model = args.model_names[p]
              /\ Truthy(calls[k].agent.client.api_key)
              /\ calls[k].agent.client.base_url = Registry[Lower(p)].base_url
    /\ \A i \in 1..N :
          /\ rt[i].st # "none" => Buildable(Providers[i])
          /\ ~Buildable(Providers[i]) => task[i].st \in {"created", "raised"}

C19_Witness ==
    /\ Done
    /\ \E i, j \in 1..N :
          /\ ~Buildable(Providers[i])
          /\ task[i].st = "raised"
          /\ rt[i].st = "none"
          /\ Buildable(Providers[j])
          /\ rt[j].st # "none"
          /\ \E k \in 1..Len(calls) : calls[k].task = j

----------------------------------------------------------------------------
(* Single calls of LLMClient.create_client. *)

\* Identifiers a caller may pass: the four supported ones, spellings of them
\* in other letter case, and identifiers the registry does not know.
ClientProviders ==
    {"openai", "claude", "gemini", "deepseek",
     "OpenAI", "CLAUDE", "Gemini", "DeepSeek",
     "invalid-provider", "mistral"}
ClientApiKeys == {None, "", "sk-explicit"}
AllEnvKeys ==
    {"OPENAI_API_KEY", "ANTHROPIC_API_KEY", "GEMINI_API_KEY", "DEEPSEEK_API_KEY"}
EnvValue(k) == "env:" \o k

\* Environments in which each key is unset, set to "" or set to a value of
\* its own.
RECURSIVE EnvsOver(_)
EnvsOver(keys) ==
    IF keys = {} THEN {EmptyDict}
    ELSE LET k == CHOOSE x \in keys : TRUE
             rest == EnvsOver(keys \ {k})
         IN  rest \cup {[x \in DOMAIN e \cup {k} |-> IF x = k THEN v ELSE e[x]] :
                           e \in rest, v \in {"", EnvValue(k)}}
ClientEnvironments == EnvsOver(AllEnvKeys)

\* The fan-out call is not being looked at.
RunIdle ==
    /\ args \in {a \in PromptInputs : a.messages = DefaultMessages /\ a.providers = <<"openai", "claude">>}
    /\ entry = "none"
    /\ pc = "idle"
    /\ task = <<>>
    /\ rt = <<>>
    /\ calls = <<>>
    /\ result = NoResult
    /\ caller = "idle"

ClientInit ==
    /\ RunIdle
    /\ ToolsIdle
    /\ environ \in ClientEnvironments
    /\ client_call \in
          [provider : ClientProviders, api_key : ClientApiKeys,
           st : {"ready"}, out : {NoClientCall.out}]

\* LLMClient.create_client(provider, api_key) runs under os.environ.
CreateClientCall ==
    /\ client_call.st = "ready"
    /\ client_call' =
          [client_call EXCEPT
              !.st = "done",
              !.out = CreateClient(client_call.provider, client_call.api_key, environ)]
    /\ UNCHANGED <<runVars, environ, toolVars>>

ClientNext == CreateClientCall

SpecClient == ClientInit /\ [][ClientNext]_vars

----------------------------------------------------------------------------
(* C12, C13: the client factory. *)

\* The provider a spelling names when letter case is ignored, or None.
NamedProvider(id) ==
    CASE id \in {"openai", "OpenAI"} -> "openai"
      [] id \in {"claude", "CLAUDE"} -> "claude"
      [] id \in {"gemini", "Gemini"} -> "gemini"
      [] id \in {"deepseek", "DeepSeek"} -> "deepseek"
      [] OTHER -> None

\* The documented base URL and credential key of each provider.
DocumentedBaseUrl(p) ==
    CASE p = "openai" -> "https://api.openai.com/v1/"
      [] p = "claude" -> "https://api.anthropic.com/v1/"
      [] p = "gemini" -> "https://generativelanguage.googleapis.com/v1beta/openai/"
      [] p = "deepseek" -> "https://api.deepseek.com/v1/"
DocumentedEnvKey(p) ==
    CASE p = "openai" -> "OPENAI_API_KEY"
      [] p = "claude" -> "ANTHROPIC_API_KEY"
      [] p = "gemini" -> "GEMINI_API_KEY"
      [] p = "deepseek" -> "DEEPSEEK_API_KEY"

ClientDone == client_call.st = "done"
ClientNamed == NamedProvider(client_call.provider)
ClientEnvValue == Get(environ, DocumentedEnvKey(ClientNamed))
ClientResolvable == Truthy(client_call.api_key) \/ Truthy(ClientEnvValue)

\* C12: for an identifier that names one of the four providers ignoring
\* letter case, with a resolvable credential, create_client returns a client
\* bound to that provider's documented base URL; for any other identifier it
\* fails with the unsupported-provider error that lists the supported set,
\* with or without a credential.
C12_ClientBoundToDocumentedUrl ==
    ClientDone =>
        /\ (ClientNamed # None /\ ClientResolvable) =>
              /\ client_call.out.ok
              /\ client_call.out.value.base_url = DocumentedBaseUrl(ClientNamed)
        /\ ClientNamed = None =>
              /\ ~client_call.out.ok
              /\ client_call.out.value = NoClient
              /\ client_call.out.error =
                    <<"Unsupported provider: ", client_call.provider,
                      ". Supported providers are: ",
                      "openai", ", ", "claude", ", ", "gemini", ", ", "deepseek">>

C12_Witness ==
    /\ ClientDone
    /\ client_call.provider = "DeepSeek"
    /\ client_call.api_key = None
    /\ client_call.out.ok
    /\ client_call.out.value.base_url = "https://api.deepseek.com/v1/"

\* C13: for a supported provider the explicit credential is used when it is
\* non-empty, whatever the environment holds; otherwise the value of the
\* provider's own environment key; when neither is non-empty the call fails
\* with the missing-credential error naming that key and makes no client.
C13_CredentialResolution ==
    (ClientDone /\ ClientNamed # None) =>
        /\ Truthy(client_call.api_key) =>
              /\ client_call.out.ok
              /\ client_call.out.value.api_key = client_call.api_key
        /\ (~Truthy(client_call.api_key) /\ Truthy(ClientEnvValue)) =>
              /\ client_call.out.ok
              /\ client_call.out.value.api_key = ClientEnvValue
        /\ ~ClientResolvable =>
              /\ ~client_call.out.ok
              /\ client_call.out.value = NoClient
              /\ client_call.out.error =
                    <<"API key not provided and ", DocumentedEnvKey(ClientNamed),
                      " environment variable not set">>

C13_Witness ==
    /\ ClientDone
    /\ ClientNamed = "claude"
    /\ client_call.api_key = "sk-explicit"
    /\ ClientEnvValue = EnvValue("ANTHROPIC_API_KEY")
    /\ client_call.out.ok
    /\ client_call.out.value.api_key = "sk-explicit"

----------------------------------------------------------------------------
(* Calls of the tool factory and invocations of the tools it made. *)

\* The dicts of ds, each also extended by key k with a value of vs.
OptionalKey(ds, k, vs) ==
    ds \cup {[x \in DOMAIN d \cup {k} |-> IF x = k THEN v ELSE d[x]] : d \in ds, v \in vs}

\* Tool definitions: every key present or absent, name and callback_url
\* also present and empty.
AllDefs ==
    OptionalKey(
        OptionalKey(
            OptionalKey(
                OptionalKey({EmptyDict}, "name", {"", "get_weather", "search_web"}),
                "description", {"Get the current weather for a city."}),
            "parameters", {"{type: object, required: [city]}"}),
        "callback_url", {"", "https://api.example.com/search"})

WeatherDef ==
    [k \in {"name", "description", "parameters"} |->
        CASE k = "name" -> "get_weather"
          [] k = "description" -> "Get the current weather for a city."
          [] k = "parameters" -> "{type: object, required: [city]}"]
SearchDef ==
    [k \in {"name", "callback_url"} |->
        CASE k = "name" -> "search_web"
          [] k = "callback_url" -> "https://api.example.com/search"]
NamelessDef == [k \in {"description"} |-> "Invalid tool"]
EmptyNameDef == [k \in {"name"} |-> ""]
ListDefs == {WeatherDef, SearchDef, NamelessDef, EmptyNameDef}

TokenPool ==
    {Tok("["), Tok("]"), Tok(","), Tok("{"), ObjTok(WeatherDef), ObjTok(NamelessDef)}

ToolInputs ==
    {DefInput(d) : d \in AllDefs}
    \cup {ValueInput(JObject(d)) : d \in ListDefs}
    \cup {ValueInput(JList(items)) : items \in SeqsUpTo({JObject(d) : d \in ListDefs}, MaxDefs)}
    \cup {TextInput(toks) : toks \in SeqsUpTo(TokenPool, MaxTokens)}

\* Keyword arguments: pairs with distinct names, in the order supplied.
ArgPairs == {[k |-> k, v |-> v] : k \in {"city", "country"}, v \in {"Tokyo", "Japan"}}
KwargsPool ==
    {kw \in SeqsUpTo(ArgPairs, MaxArgs) :
        \A i, j \in 1..Len(kw) : kw[i].k = kw[j].k => i = j}

Responses ==
    {PostOk(<<"Mocked search results for 'AI'">>),
     PostOk(<<>>),
     PostHttpError(<<"Not Found">>, <<"404 Client Error: Not Found for url">>),
     PostRaises(<<"Connection error">>)}

ToolsInit ==
    /\ RunIdle
    /\ environ = EmptyDict
    /\ client_call = NoClientCall
    /\ json_tools \in ToolInputs
    /\ created = NoTools
    /\ invocation = NoInvocation

\* JsonTool.from_json(json_def) is called on one definition.
FromJsonCall ==
    /\ json_tools.how = "def"
    /\ created.st = "none"
    /\ created' =
          LET r == FromJson(json_tools.value.d)
          IN  IF r.ok THEN ToolsReturned(<<r.value>>) ELSE ToolsRaised(r.exc, r.error)
    /\ UNCHANGED <<runVars, environ, client_call, json_tools, invocation>>

\* create_tools_from_json(json_tools) is called on text or on a structure.
CreateToolsCall ==
    /\ json_tools.how \in {"text", "value"}
    /\ created.st = "none"
    /\ created' = CreateToolsFromJson(json_tools)
    /\ UNCHANGED <<runVars, environ, client_call, json_tools, invocation>>

\* dynamic_tool(**kwargs) of tool n is called, lines 50-58 and 63-65: with a
\* callback_url it issues the POST and waits; without, it returns the echo.
CallTool(n, kwargs) ==
    /\ created.st = "ok"
    /\ n \in 1..Len(created.list)
    /\ invocation.st \in {"none", "done"}
    /\ LET tool == created.list[n]
       IN  IF UsesCallback(tool)
           THEN invocation' =
                   [st |-> "posting", tool |-> n, kwargs |-> kwargs,
                    posts |-> <<PostRequest(tool, kwargs)>>,
                    response |-> NoResponse, out |-> NoText, raised |-> FALSE]
           ELSE invocation' =
                   [st |-> "done", tool |-> n, kwargs |-> kwargs, posts |-> <<>>,
                    response |-> NoResponse,
                    out |-> EchoResult(tool, kwargs).out,
                    raised |-> EchoResult(tool, kwargs).raised]
    /\ UNCHANGED <<runVars, environ, client_call, json_tools, created>>

\* requests.post is over, lines 59-62.
PostResponds(response) ==
    /\ invocation.st = "posting"
    /\ LET r == CallbackResult(created.list[invocation.tool], response)
       IN  invocation' = [invocation EXCEPT !.st = "done", !.response = response,
                                            !.out = r.out, !.raised = r.raised]
    /\ UNCHANGED <<runVars, environ, client_call, json_tools, created>>

ToolsNext ==
    \/ FromJsonCall
    \/ CreateToolsCall
    \/ \E n \in 1..Len(created.list), kwargs \in KwargsPool : CallTool(n, kwargs)
    \/ \E response \in Responses : PostResponds(response)

SpecTools == ToolsInit /\ [][ToolsNext]_vars

----------------------------------------------------------------------------
(* C14-C18: the tool factory. *)

FactoryDone == created.st # "none"

\* A definition has a name (a callback_url) when the key is there and its
\* value is not empty.
HasName(d) == "name" \in DOMAIN d /\ d["name"] # ""
HasCallbackUrl(d) == "callback_url" \in DOMAIN d /\ d["callback_url"] # ""

\* The tool the factory must make of a definition that has a name.
ExpectedTool(d) ==
    [name |-> d["name"],
     doc |-> IF "description" \in DOMAIN d THEN d["description"] ELSE "",
     tool_schema |->
        [type |-> "function",
         function |->
            [name |-> d["name"],
             description |-> IF "description" \in DOMAIN d THEN d["description"] ELSE "",
             parameters |-> IF "parameters" \in DOMAIN d THEN d["parameters"] ELSE "{}"]],
     closure |->
        [name |-> d["name"],
         callback_url |-> IF "callback_url" \in DOMAIN d THEN d["callback_url"] ELSE None]]

\* An element the single-definition factory accepts.
ElementOk(el) == el.kind = "object" /\ HasName(el.d)

\* What the batch factory must answer on a list of elements: one tool per
\* element in order, or the error of the first element the single factory
\* rejects and no tools.
ExpectedTools(items) ==
    LET bad == {i \in 1..Len(items) : ~ElementOk(items[i])}
    IN  IF bad = {}
        THEN ToolsReturned([i \in 1..Len(items) |-> ExpectedTool(items[i].d)])
        ELSE IF items[Min(bad)].kind = "object"
        THEN ToolsRaised("ValueError", <<"Tool definition must include a 'name' field">>)
        ELSE ToolsRaised("AttributeError", <<"'list' object has no attribute 'get'">>)

\* The definitions a structured argument holds, in order.
StructuredInput == json_tools.how \in {"def", "value"}
InputItems == IF json_tools.value.kind = "list" THEN json_tools.value.items ELSE <<json_tools.value>>

\* The definition the invoked tool was made from (structured arguments).
InvokedDef == InputItems[invocation.tool].d
Invoked == invocation.st # "none"
InvocationOver == invocation.st = "done"

\* C14: an invocation of a tool with a callback_url never raises: after a
\* POST that returns a non-error status the result is the response body,
\* after one that raises or returns an error status it is
\* "Error calling {name}: " followed by the failure's description.
C14_CallbackResultNeverRaises ==
    (StructuredInput /\ InvocationOver) =>
        /\ ~invocation.raised
        /\ HasCallbackUrl(InvokedDef) =>
              /\ invocation.response.kind # "none"
              /\ invocation.response.kind = "ok" =>
                    invocation.out = invocation.response.text
              /\ invocation.response.kind \in {"http_error", "raise"} =>
                    /\ Len(invocation.out) = 3 + Len(invocation.response.message)
                    /\ SubSeq(invocation.out, 1, 3) =
                          <<"Error calling ", InvokedDef["name"], ": ">>
                    /\ SubSeq(invocation.out, 4, Len(invocation.out)) =
                          invocation.response.message

C14_Witness ==
    /\ StructuredInput
    /\ InvocationOver
    /\ HasCallbackUrl(InvokedDef)
    /\ invocation.response.kind = "http_error"
    /\ Head(invocation.out) = "Error calling "
    /\ ~invocation.raised

\* The echo of keyword arguments kw for a tool named name: after the
\* heading, pair i fills positions 4i-3..4i-1 as k, "=", v, and ", " stands
\* between two pairs.
ExpectedEcho(name, kw) ==
    <<"Tool ", name, " called with parameters: ">>
    \o [j \in 1..(IF kw = <<>> THEN 0 ELSE 4 * Len(kw) - 1) |->
           CASE j % 4 = 1 -> kw[(j + 3) \div 4].k
             [] j % 4 = 2 -> "="
             [] j % 4 = 3 -> kw[(j + 1) \div 4].v
             [] OTHER -> ", "]

\* C15: the definition alone chooses the branch.  With a callback_url an
\* invocation issues exactly one POST, to that URL with the body
\* {name, parameters: args}, and does not return the echo; without one it
\* issues no POST and returns the echo of the arguments in the order they
\* were supplied.
C15_BranchChosenByDefinition ==
    (StructuredInput /\ Invoked) =>
        IF HasCallbackUrl(InvokedDef)
        THEN /\ Len(invocation.posts) = 1
             /\ invocation.posts[1] =
                   [url |-> InvokedDef["callback_url"],
                    json |-> [name |-> InvokedDef["name"],
                              parameters |-> invocation.kwargs]]
             /\ invocation.st = "done" =>
                   /\ invocation.response.kind # "none"
                   /\ invocation.out # ExpectedEcho(InvokedDef["name"], invocation.kwargs)
        ELSE /\ invocation.posts = <<>>
             /\ invocation.st = "done"
             /\ invocation.response.kind = "none"
             /\ invocation.out = ExpectedEcho(InvokedDef["name"], invocation.kwargs)

C15_Witness ==
    /\ StructuredInput
    /\ InvocationOver
    /\ ~HasCallbackUrl(InvokedDef)
    /\ Len(invocation.kwargs) = 2
    /\ invocation.kwargs[1].k = "country"
    /\ invocation.out =
          <<"Tool ", "get_weather", " called with parameters: ",
            "country", "=", "Japan", ", ", "city", "=", "Tokyo">>

\* C16: on a list the batch factory returns one tool per element, tool i
\* made of element i, or, when the single factory fails on any element,
\* fails as a whole with no tools.
C16_OneToolPerElementOrNone ==
    (json_tools.how = "value" /\ json_tools.value.kind = "list" /\ FactoryDone) =>
        LET items == json_tools.value.items
        IN  /\ (\A i \in 1..Len(items) : ElementOk(items[i])) =>
                  /\ created.st = "ok"
                  /\ Len(created.list) = Len(items)
                  /\ \A i \in 1..Len(items) :
                        /\ created.list[i] = ExpectedTool(items[i].d)
                        /\ created.list[i].name = items[i].d["name"]
            /\ (\E i \in 1..Len(items) : ~ElementOk(items[i])) =>
                  /\ created.st = "raised"
                  /\ created.exc = "ValueError"
                  /\ created.list = <<>>

C16_Witness ==
    /\ json_tools.how = "value"
    /\ json_tools.value.kind = "list"
    /\ created.st = "ok"
    /\ Len(created.list) = 2
    /\ created.list[1].name = "search_web"
    /\ created.list[2].name = "get_weather"

\* C17: from_json fails with the invalid-definition error exactly when the
\* definition has no name; with a name it returns a callable whose name and
\* schema name are that name, whose description is the definition's or ""
\* and whose parameters are the definition's or the empty schema.
C17_FromJsonNeedsName ==
    (json_tools.how = "def" /\ FactoryDone) =>
        LET d == json_tools.value.d
        IN  /\ created.st = "raised" <=> ~HasName(d)
            /\ ~HasName(d) =>
                  /\ created.exc = "ValueError"
                  /\ created.error = <<"Tool definition must include a 'name' field">>
                  /\ created.list = <<>>
            /\ HasName(d) =>
                  /\ created.st = "ok"
                  /\ Len(created.list) = 1
                  /\ created.list[1].name = d["name"]
                  /\ created.list[1].tool_schema.function.name = d["name"]
                  /\ created.list[1].doc =
                        IF "description" \in DOMAIN d THEN d["description"] ELSE ""
                  /\ created.list[1].tool_schema.function.description =
                        IF "description" \in DOMAIN d THEN d["description"] ELSE ""
                  /\ created.list[1].tool_schema.function.parameters =
                        IF "parameters" \in DOMAIN d THEN d["parameters"] ELSE "{}"

C17_Witness ==
    /\ json_tools.how = "def"
    /\ DOMAIN json_tools.value.d = {"name"}
    /\ created.st = "ok"
    /\ created.list[1].name = "get_weather"
    /\ created.list[1].doc = ""
    /\ created.list[1].tool_schema.function.parameters = "{}"

\* json.dumps of a definition or of a list of definitions.
RECURSIVE DumpItems(_)
DumpItems(items) ==
    IF items = <<>> THEN <<>>
    ELSE <<ObjTok(Head(items).d)>>
         \o (IF Tail(items) = <<>> THEN <<>> ELSE <<Tok(",")>> \o DumpItems(Tail(items)))
Dumps(value) ==
    IF value.kind = "object" THEN <<ObjTok(value.d)>>
    ELSE <<Tok("[")>> \o DumpItems(value.items) \o <<Tok("]")>>

\* The definitions and lists of definitions whose text fits the bound.
TextDefs == {WeatherDef, NamelessDef}
ToolValues ==
    {JObject(d) : d \in TextDefs}
    \cup {JList(items) : items \in SeqsUpTo({JObject(d) : d \in TextDefs}, MaxTokens)}

\* Well-formed JSON text, by reduction: an object is a value, and the
\* innermost bracket pair, when it encloses nothing or values separated by
\* single commas, is a value; text is well-formed when it reduces to one
\* value.
Symbols(toks) ==
    [i \in 1..Len(toks) |->
        IF toks[i].t = "obj" THEN "v" ELSE toks[i].t]
ValuesWithCommas(syms) ==
    \/ syms = <<>>
    \/ /\ Len(syms) % 2 = 1
       /\ \A i \in 1..Len(syms) : syms[i] = IF i % 2 = 1 THEN "v" ELSE ","
RECURSIVE Reduces(_)
Reduces(syms) ==
    LET closes == {j \in 1..Len(syms) : syms[j] = "]"}
    IN  IF closes = {} THEN syms = <<"v">>
        ELSE LET j == Min(closes)
                 opens == {i \in 1..(j - 1) : syms[i] = "["}
             IN  /\ opens # {}
                 /\ ValuesWithCommas(SubSeq(syms, Max(opens) + 1, j - 1))
                 /\ Reduces(SubSeq(syms, 1, Max(opens) - 1) \o <<"v">>
                            \o SubSeq(syms, j + 1, Len(syms)))
WellFormed(toks) == Reduces(Symbols(toks))

\* C18: text and structure are treated alike.  On the text of a definition
\* or of a list of definitions the batch factory answers as on that value;
\* on malformed text it fails with the invalid-JSON error; on a single
\* definition it answers as on the one-element list holding it.
C18_TextAndStructureAlike ==
    FactoryDone =>
        /\ json_tools.how = "text" =>
              /\ \A v \in ToolValues :
                    json_tools.toks = Dumps(v) =>
                        created = ExpectedTools(IF v.kind = "list" THEN v.items ELSE <<v>>)
              /\ ~WellFormed(json_tools.toks) =>
                    created = ToolsRaised("ValueError", <<"Invalid JSON string">>)
              /\ created.error = <<"Invalid JSON string">> => ~WellFormed(json_tools.toks)
        /\ (json_tools.how = "value" /\ json_tools.value.kind = "object") =>
              created = ExpectedTools(<<json_tools.value>>)

C18_Witness ==
    /\ json_tools.how = "text"
    /\ json_tools.toks = <<Tok("["), ObjTok(WeatherDef), Tok(","), ObjTok(WeatherDef), Tok("]")>>
    /\ created.st = "ok"
    /\ Len(created.list) = 2
    /\ created.list[2].name = "get_weather"

====
